---- MODULE Spec2Model ----
(***************************************************************************)
(* Account REST service (service/routes.py): the five /accounts handlers,  *)
(* the content-type gate, and the Account persistence interface they call. *)
(* Spec runs whole requests one after another; SpecConc runs the handlers  *)
(* of several clients one persistence call at a time.                      *)
(***************************************************************************)
EXTENDS Integers, FiniteSets, Sequences, TLC

\* ------------------------------------------------------------------ bounds
MaxId == 2
NumClients == 2

\* --------------------------------------------------------------- constants
HTTP_200_OK == 200
HTTP_201_CREATED == 201
HTTP_204_NO_CONTENT == 204
HTTP_400_BAD_REQUEST == 400
HTTP_404_NOT_FOUND == 404
HTTP_415_UNSUPPORTED_MEDIA_TYPE == 415
HTTP_500_INTERNAL_SERVER_ERROR == 500

JSON == "application/json"
NoHeader == "<no Content-Type header>"
ContentTypes == {NoHeader, "", "test/html", JSON}

\* id of an Account() that has not been persisted (Python None)
NoId == 0
\* the id the tests use for an account that does not exist
MissingId == 0 - 1
ReqIds == {MissingId} \cup (1..MaxId)

\* a JSON value that is not text, sent where text is expected
WrongType == "<non-text JSON value>"
BadDate == "not-a-date"
IsoDates == {"2020-01-01"}
Today == <<2026, 11, 1>>

\* ------------------------------------------------------------ JSON bodies
Obj(f) == [kind |-> "object", obj |-> f]
Malformed == [kind |-> "malformed", obj |-> [k \in {} |-> ""]]
JsonArray == [kind |-> "array", obj |-> [k \in {} |-> ""]]

\* the account fields of a body, without an id; dj = "" leaves date_joined out
FieldsOf(n, e, a, p, dj) ==
    LET all == [name |-> n, email |-> e, address |-> a, phone_number |-> p,
                date_joined |-> dj]
    IN [k \in (IF dj = "" THEN {"name", "email", "address", "phone_number"}
               ELSE {"name", "email", "address", "phone_number", "date_joined"})
          |-> all[k]]

WithId(f, i) == [k \in DOMAIN f \cup {"id"} |-> IF k = "id" THEN i ELSE f[k]]
Without(f, key) == [k \in DOMAIN f \ {key} |-> f[k]]

Alice == FieldsOf("Alice", "a@x.com", "1 Main St", "555-1111", "")
ValidFields ==
    { Alice,
      FieldsOf("Jake", "j@x.com", "2 Oak Ave", "555-2222", "2020-01-01"),
      FieldsOf("Alice", "j@x.com", "1 Main St", "555-2222", "2020-01-01"),
      FieldsOf("Jake", "a@x.com", "2 Oak Ave", "555-1111", "") }
InvalidFields ==
    { Without(Alice, "email"),
      FieldsOf(WrongType, "a@x.com", "1 Main St", "555-1111", ""),
      FieldsOf("Alice", "a@x.com", "1 Main St", "555-1111", BadDate),
      [k \in {} |-> ""] }
AllFields == ValidFields \cup InvalidFields

Bodies ==
    {Malformed, JsonArray}
      \cup {Obj(f) : f \in AllFields}
      \cup {Obj(WithId(f, i)) : f \in ValidFields, i \in ReqIds}
      \cup {Obj(WithId(f, i)) : f \in InvalidFields, i \in {MissingId, 1}}

\* the requests a client sends: every body as JSON, and under any other
\* Content-Type one body that would be valid and one that would not
GateBodies == {Obj(Alice), Obj(WithId(Alice, 1)), Malformed}
Requests ==
    {[ct |-> JSON, body |-> b] : b \in Bodies}
      \cup {[ct |-> ct, body |-> b] : ct \in ContentTypes \ {JSON}, b \in GateBodies}

\* ------------------------------------------------- Account (service.models)
\* date.fromisoformat / date.isoformat on the dates the model uses
ValidIso(s) == s \in IsoDates
fromisoformat(s) == CASE s = "2020-01-01" -> <<2020, 1, 1>> [] OTHER -> <<0, 0, 0>>
isoformat(d) ==
    CASE d = <<2020, 1, 1>> -> "2020-01-01"
      [] d = <<2026, 11, 1>> -> "2026-11-01"
      [] OTHER -> "0000-00-00"

\* Account(): a record that is not in storage yet
Account_new ==
    [id |-> NoId, name |-> "", email |-> "", address |-> "",
     phone_number |-> "", date_joined |-> <<0, 0, 0>>]
\* what Account.find returns when there is no such row
None ==
    [id |-> NoId, name |-> "None", email |-> "None", address |-> "None",
     phone_number |-> "None", date_joined |-> <<0, 0, 0>>]

RequiredKeys == {"name", "email", "address", "phone_number"}

\* account.deserialize(data): the validating decode. ok = FALSE stands for
\* the validation error that the service answers with 400.
Account_deserialize(account, data) ==
    IF data.kind # "object" THEN [ok |-> FALSE, account |-> account]
    ELSE IF ~(RequiredKeys \subseteq DOMAIN data.obj) THEN [ok |-> FALSE, account |-> account]
    ELSE IF \E k \in RequiredKeys : data.obj[k] = WrongType THEN [ok |-> FALSE, account |-> account]
    ELSE IF "date_joined" \in DOMAIN data.obj /\ ~ValidIso(data.obj["date_joined"])
         THEN [ok |-> FALSE, account |-> account]
    ELSE [ok |-> TRUE,
          account |-> [id |-> account.id,
                       name |-> data.obj["name"],
                       email |-> data.obj["email"],
                       address |-> data.obj["address"],
                       phone_number |-> data.obj["phone_number"],
                       date_joined |-> IF "date_joined" \in DOMAIN data.obj
                                       THEN fromisoformat(data.obj["date_joined"])
                                       ELSE Today]]

\* account.serialize(): the JSON object sent back
Account_serialize(account) ==
    [id |-> account.id, name |-> account.name, email |-> account.email,
     address |-> account.address, phone_number |-> account.phone_number,
     date_joined |-> isoformat(account.date_joined)]

\* Account.find(id): the row with that id, or None
Account_find(d, id) ==
    IF \E r \in d : r.id = id THEN CHOOSE r \in d : r.id = id ELSE None

\* Account.all()
Account_all(d) == d

\* account.create(): the persistence layer assigns the next id and inserts
Account_create(d, n, account) ==
    LET row == [account EXCEPT !.id = n]
    IN [account |-> row, db |-> d \cup {row}, nextId |-> n + 1]

\* account.update(): overwrite the row that has the account's id; fails
\* when that row is no longer in storage
Account_update(d, account) ==
    IF \E r \in d : r.id = account.id
    THEN [ok |-> TRUE, db |-> {r \in d : r.id # account.id} \cup {account}]
    ELSE [ok |-> FALSE, db |-> d]

\* account.delete(): remove the row that has the account's id (idempotent)
Account_delete(d, account) == {r \in d : r.id # account.id}

\* ------------------------------------------------------ service/routes.py
\* mutant: any Content-Type that is present passes the gate
check_content_type_truthy(content_type, media_type) ==
    content_type # NoHeader /\ content_type # ""

\* check_content_type(media_type): TRUE when the handler may go on,
\* FALSE when it aborts with 415
check_content_type(content_type, media_type) ==
    content_type # NoHeader /\ content_type # "" /\ content_type = media_type

\* abort(status): the response of a request that stops early
Abort(st, d, n) == [status |-> st, payload |-> {}, db |-> d, nextId |-> n]

\* request.get_json() of a body that is not JSON aborts with 400
get_json_fails(body) == body.kind = "malformed"

\* request.get_json()["id"] raises (KeyError / TypeError) when the body
\* is not an object or has no "id"; nothing in the handlers catches it
id_lookup_raises(body) == body.kind # "object" \/ "id" \notin DOMAIN body.obj

\* mutant: the handler copies the body's id onto the new account, and the
\* row is inserted under that id
create_accounts_keeps_id(ct, body, d, n) ==
    IF ~check_content_type(ct, JSON) THEN Abort(HTTP_415_UNSUPPORTED_MEDIA_TYPE, d, n)
    ELSE IF get_json_fails(body) THEN Abort(HTTP_400_BAD_REQUEST, d, n)
    ELSE LET r == Account_deserialize(Account_new, body)
         IN IF ~r.ok THEN Abort(HTTP_400_BAD_REQUEST, d, n)
            ELSE IF "id" \in DOMAIN body.obj /\ body.obj["id"] >= 1
                 THEN LET row == [r.account EXCEPT !.id = body.obj["id"]]
                      IN [status |-> HTTP_201_CREATED,
                          payload |-> {Account_serialize(row)},
                          db |-> d \cup {row}, nextId |-> n]
                 ELSE LET c == Account_create(d, n, r.account)
                      IN [status |-> HTTP_201_CREATED,
                          payload |-> {Account_serialize(c.account)},
                          db |-> c.db, nextId |-> c.nextId]

create_accounts(ct, body, d, n) ==
    IF ~check_content_type(ct, JSON) THEN Abort(HTTP_415_UNSUPPORTED_MEDIA_TYPE, d, n)
    ELSE IF get_json_fails(body) THEN Abort(HTTP_400_BAD_REQUEST, d, n)
    ELSE LET r == Account_deserialize(Account_new, body)
         IN IF ~r.ok THEN Abort(HTTP_400_BAD_REQUEST, d, n)
            ELSE LET c == Account_create(d, n, r.account)
                 IN [status |-> HTTP_201_CREATED,
                     payload |-> {Account_serialize(c.account)},
                     db |-> c.db, nextId |-> c.nextId]

\* mutant: the loop stops after the first account
read_all_accounts_first(d, n) ==
    [status |-> HTTP_200_OK,
     payload |-> IF Account_all(d) = {} THEN {}
                 ELSE {Account_serialize(CHOOSE account \in Account_all(d) : TRUE)},
     db |-> d, nextId |-> n]

read_all_accounts(d, n) ==
    [status |-> HTTP_200_OK,
     payload |-> {Account_serialize(account) : account \in Account_all(d)},
     db |-> d, nextId |-> n]

\* mutant: the None test is inverted
read_account_inverted(ct, body, d, n) ==
    IF ~check_content_type(ct, JSON) THEN Abort(HTTP_415_UNSUPPORTED_MEDIA_TYPE, d, n)
    ELSE IF get_json_fails(body) THEN Abort(HTTP_400_BAD_REQUEST, d, n)
    ELSE IF id_lookup_raises(body) THEN Abort(HTTP_500_INTERNAL_SERVER_ERROR, d, n)
    ELSE LET account == Account_find(d, body.obj["id"])
         IN IF account # None THEN Abort(HTTP_404_NOT_FOUND, d, n)
            ELSE [status |-> HTTP_200_OK, payload |-> {Account_serialize(account)},
                  db |-> d, nextId |-> n]

read_account(ct, body, d, n) ==
    IF ~check_content_type(ct, JSON) THEN Abort(HTTP_415_UNSUPPORTED_MEDIA_TYPE, d, n)
    ELSE IF get_json_fails(body) THEN Abort(HTTP_400_BAD_REQUEST, d, n)
    ELSE IF id_lookup_raises(body) THEN Abort(HTTP_500_INTERNAL_SERVER_ERROR, d, n)
    ELSE LET account == Account_find(d, body.obj["id"])
         IN IF account = None THEN Abort(HTTP_404_NOT_FOUND, d, n)
            ELSE [status |-> HTTP_200_OK, payload |-> {Account_serialize(account)},
                  db |-> d, nextId |-> n]

\* mutant: an update of a missing account creates it
update_account_upsert(ct, body, d, n) ==
    IF ~check_content_type(ct, JSON) THEN Abort(HTTP_415_UNSUPPORTED_MEDIA_TYPE, d, n)
    ELSE IF get_json_fails(body) THEN Abort(HTTP_400_BAD_REQUEST, d, n)
    ELSE IF id_lookup_raises(body) THEN Abort(HTTP_500_INTERNAL_SERVER_ERROR, d, n)
    ELSE LET found == Account_find(d, body.obj["id"])
             account == IF found = None
                        THEN [Account_new EXCEPT !.id = body.obj["id"]] ELSE found
             r == Account_deserialize(account, body)
         IN IF ~r.ok THEN Abort(HTTP_400_BAD_REQUEST, d, n)
            ELSE [status |-> HTTP_200_OK,
                  payload |-> {Account_serialize(r.account)},
                  db |-> {x \in d : x.id # r.account.id} \cup {r.account},
                  nextId |-> n]

\* mutant: the handler never calls account.update()
update_account_nosave(ct, body, d, n) ==
    IF ~check_content_type(ct, JSON) THEN Abort(HTTP_415_UNSUPPORTED_MEDIA_TYPE, d, n)
    ELSE IF get_json_fails(body) THEN Abort(HTTP_400_BAD_REQUEST, d, n)
    ELSE IF id_lookup_raises(body) THEN Abort(HTTP_500_INTERNAL_SERVER_ERROR, d, n)
    ELSE LET account == Account_find(d, body.obj["id"])
         IN IF account = None THEN Abort(HTTP_404_NOT_FOUND, d, n)
            ELSE LET r == Account_deserialize(account, body)
                 IN IF ~r.ok THEN Abort(HTTP_400_BAD_REQUEST, d, n)
                    ELSE [status |-> HTTP_200_OK,
                          payload |-> {Account_serialize(r.account)},
                          db |-> d, nextId |-> n]

update_account(ct, body, d, n) ==
    IF ~check_content_type(ct, JSON) THEN Abort(HTTP_415_UNSUPPORTED_MEDIA_TYPE, d, n)
    ELSE IF get_json_fails(body) THEN Abort(HTTP_400_BAD_REQUEST, d, n)
    ELSE IF id_lookup_raises(body) THEN Abort(HTTP_500_INTERNAL_SERVER_ERROR, d, n)
    ELSE LET account == Account_find(d, body.obj["id"])
         IN IF account = None THEN Abort(HTTP_404_NOT_FOUND, d, n)
            ELSE LET r == Account_deserialize(account, body)
                 IN IF ~r.ok THEN Abort(HTTP_400_BAD_REQUEST, d, n)
                    ELSE LET u == Account_update(d, r.account)
                         IN IF ~u.ok THEN Abort(HTTP_500_INTERNAL_SERVER_ERROR, d, n)
                            ELSE [status |-> HTTP_200_OK,
                                  payload |-> {Account_serialize(r.account)},
                                  db |-> u.db, nextId |-> n]

\* mutant: a delete of a missing account is an error
delete_account_strict(ct, body, d, n) ==
    IF ~check_content_type(ct, JSON) THEN Abort(HTTP_415_UNSUPPORTED_MEDIA_TYPE, d, n)
    ELSE IF get_json_fails(body) THEN Abort(HTTP_400_BAD_REQUEST, d, n)
    ELSE IF id_lookup_raises(body) THEN Abort(HTTP_500_INTERNAL_SERVER_ERROR, d, n)
    ELSE LET account == Account_find(d, body.obj["id"])
         IN IF account = None THEN Abort(HTTP_404_NOT_FOUND, d, n)
            ELSE [status |-> HTTP_204_NO_CONTENT, payload |-> {},
                  db |-> Account_delete(d, account), nextId |-> n]

\* mutant: the handler answers 204 without calling account.delete()
delete_account_noop(ct, body, d, n) ==
    IF ~check_content_type(ct, JSON) THEN Abort(HTTP_415_UNSUPPORTED_MEDIA_TYPE, d, n)
    ELSE IF get_json_fails(body) THEN Abort(HTTP_400_BAD_REQUEST, d, n)
    ELSE IF id_lookup_raises(body) THEN Abort(HTTP_500_INTERNAL_SERVER_ERROR, d, n)
    ELSE [status |-> HTTP_204_NO_CONTENT, payload |-> {}, db |-> d, nextId |-> n]

delete_account(ct, body, d, n) ==
    IF ~check_content_type(ct, JSON) THEN Abort(HTTP_415_UNSUPPORTED_MEDIA_TYPE, d, n)
    ELSE IF get_json_fails(body) THEN Abort(HTTP_400_BAD_REQUEST, d, n)
    ELSE IF id_lookup_raises(body) THEN Abort(HTTP_500_INTERNAL_SERVER_ERROR, d, n)
    ELSE LET account == Account_find(d, body.obj["id"])
         IN [status |-> HTTP_204_NO_CONTENT, payload |-> {},
             db |-> IF account # None THEN Account_delete(d, account) ELSE d,
             nextId |-> n]

\* ------------------------------------------------------------------- state
VARIABLES
    db,          \* the rows of the accounts table
    nextId,      \* the id the persistence layer assigns next
    last,        \* the last request and its response
    assigned,    \* history: the ids the 201 responses carried, in order
    deleted,     \* history: ids that were in storage when a delete of them got 204
    createdFrom, \* history: id -> the payload it was created from, until an
                 \*          update or delete names that id
    twice,       \* history: the last two requests were deletes of the same id
    inflight     \* SpecConc: each client's request in progress

vars == <<db, nextId, last, assigned, deleted, createdFrom, twice, inflight>>

NoRequest ==
    [op |-> "none", ct |-> NoHeader, body |-> Malformed, status |-> 0, payload |-> {}]

Idle ==
    [pc |-> "idle", op |-> "none", body |-> Malformed, account |-> None,
     found |-> None, calls |-> 0, status |-> 0]

Clients == 1..NumClients

Init ==
    /\ db = {}
    /\ nextId = 1
    /\ last = NoRequest
    /\ assigned = <<>>
    /\ deleted = {}
    /\ createdFrom = [i \in {} |-> Alice]
    /\ twice = FALSE
    /\ inflight = [c \in Clients |-> Idle]

Ids(d) == {r.id : r \in d}
Range(q) == {q[i] : i \in 1..Len(q)}

\* the id a request names, NoId when it names none
ReqId(ct, body) ==
    IF ct # JSON \/ id_lookup_raises(body) THEN NoId ELSE body.obj["id"]

Respond(op, ct, body, r) ==
    LET i == ReqId(ct, body)
        newId == (CHOOSE p \in r.payload : TRUE).id
    IN
    /\ db' = r.db
    /\ nextId' = r.nextId
    /\ last' = [op |-> op, ct |-> ct, body |-> body, status |-> r.status,
                payload |-> r.payload]
    /\ assigned' = IF op = "create" /\ r.status = HTTP_201_CREATED
                   THEN Append(assigned, newId) ELSE assigned
    /\ deleted' = IF op = "delete" /\ r.status = HTTP_204_NO_CONTENT /\ i \in Ids(db)
                  THEN deleted \cup {i} ELSE deleted
    /\ createdFrom' =
          IF op = "create" /\ r.status = HTTP_201_CREATED
          THEN [k \in DOMAIN createdFrom \cup {newId} |->
                   IF k = newId THEN Without(body.obj, "id") ELSE createdFrom[k]]
          ELSE IF op \in {"update", "delete"}
          THEN [k \in DOMAIN createdFrom \ {i} |-> createdFrom[k]]
          ELSE createdFrom
    /\ twice' = (op = "delete" /\ last.op = "delete" /\ i # NoId
                    /\ i = ReqId(last.ct, last.body))
    /\ UNCHANGED inflight

Create ==
    /\ nextId <= MaxId
    /\ \E rq \in Requests :
          Respond("create", rq.ct, rq.body, create_accounts(rq.ct, rq.body, db, nextId))

ListAll ==
    Respond("list", NoHeader, Malformed, read_all_accounts(db, nextId))

Read ==
    \E rq \in Requests :
        Respond("read", rq.ct, rq.body, read_account(rq.ct, rq.body, db, nextId))

Update ==
    \E rq \in Requests :
        Respond("update", rq.ct, rq.body, update_account(rq.ct, rq.body, db, nextId))

Delete ==
    \E rq \in Requests :
        Respond("delete", rq.ct, rq.body, delete_account(rq.ct, rq.body, db, nextId))

Next == Create \/ ListAll \/ Read \/ Update \/ Delete

Spec == Init /\ [][Next]_vars

TypeOK ==
    /\ nextId \in 1..(MaxId + 1)
    /\ \A r \in db : r.id \in 1..MaxId
    /\ last.status \in {0, 200, 201, 204, 400, 404, 415, 500}

\* ------------------------------------------- handlers, one call at a time
\* The same handlers, cut at their persistence calls: what a handler does
\* before its first call, between Account.find and the next call, and the
\* calls themselves. Requests of different clients interleave at the calls.
Jake == FieldsOf("Jake", "j@x.com", "2 Oak Ave", "555-2222", "2020-01-01")
\* the requests that race: all clients name the first account
ConcRequests ==
    {[ct |-> JSON, body |-> b] :
        b \in {Obj(Alice), Obj(WithId(Jake, 1))}}
      \cup {[ct |-> "test/html", body |-> Obj(Alice)]}

InProgress(pc, op, body, account, found, calls) ==
    [pc |-> pc, op |-> op, body |-> body, account |-> account, found |-> found,
     calls |-> calls, status |-> 0]
Done(op, st, calls) ==
    [pc |-> "done", op |-> op, body |-> Malformed, account |-> None,
     found |-> None, calls |-> calls, status |-> st]

\* a handler up to its first persistence call
handler_start(op, ct, body) ==
    IF op = "list" THEN InProgress("all", op, body, None, None, 0)
    ELSE IF ~check_content_type(ct, JSON)
         THEN Done(op, HTTP_415_UNSUPPORTED_MEDIA_TYPE, 0)
    ELSE IF get_json_fails(body) THEN Done(op, HTTP_400_BAD_REQUEST, 0)
    ELSE IF op = "create"
         THEN LET r == Account_deserialize(Account_new, body)
              IN IF ~r.ok THEN Done(op, HTTP_400_BAD_REQUEST, 0)
                 ELSE InProgress("insert", op, body, r.account, None, 0)
    ELSE IF id_lookup_raises(body) THEN Done(op, HTTP_500_INTERNAL_SERVER_ERROR, 0)
    ELSE InProgress("find", op, body, None, None, 0)

\* mutant: delete calls account.delete() without testing for None
after_find_unguarded(op, body, account) ==
    IF op = "delete" THEN InProgress("write", op, body, account, account, 1)
    ELSE IF account = None THEN Done(op, HTTP_404_NOT_FOUND, 1)
    ELSE IF op = "read" THEN Done(op, HTTP_200_OK, 1)
    ELSE LET r == Account_deserialize(account, body)
         IN IF ~r.ok THEN Done(op, HTTP_400_BAD_REQUEST, 1)
            ELSE InProgress("write", op, body, r.account, account, 1)

\* read, update and delete between Account.find, which returned account,
\* and their next persistence call
after_find(op, body, account) ==
    IF op = "read"
    THEN IF account = None THEN Done(op, HTTP_404_NOT_FOUND, 1)
         ELSE Done(op, HTTP_200_OK, 1)
    ELSE IF op = "update"
    THEN IF account = None THEN Done(op, HTTP_404_NOT_FOUND, 1)
         ELSE LET r == Account_deserialize(account, body)
              IN IF ~r.ok THEN Done(op, HTTP_400_BAD_REQUEST, 1)
                 ELSE InProgress("write", op, body, r.account, account, 1)
    ELSE IF account # None THEN InProgress("write", op, body, account, account, 1)
         ELSE Done(op, HTTP_204_NO_CONTENT, 1)

CrudOps == {"create", "read", "update", "delete"}

Step(c, r) == inflight' = [inflight EXCEPT ![c] = r]
History == <<last, assigned, deleted, createdFrom, twice>>

\* a client sends a request; the handler runs up to its first call
Receive(c) ==
    /\ inflight[c].pc \in {"idle", "done"}
    /\ \E op \in CrudOps \cup {"list"}, rq \in ConcRequests :
          /\ op = "create" =>
                nextId + Cardinality({k \in Clients : inflight[k].pc = "insert"}) <= MaxId
          /\ Step(c, handler_start(op, rq.ct, rq.body))
    /\ UNCHANGED <<db, nextId, History>>

\* Account.find(accountId)
Find(c) ==
    /\ inflight[c].pc = "find"
    /\ Step(c, after_find(inflight[c].op, inflight[c].body,
                          Account_find(db, inflight[c].body.obj["id"])))
    /\ UNCHANGED <<db, nextId, History>>

\* account.create()
Insert(c) ==
    /\ inflight[c].pc = "insert"
    /\ LET r == Account_create(db, nextId, inflight[c].account)
       IN /\ db' = r.db
          /\ nextId' = r.nextId
    /\ Step(c, Done("create", HTTP_201_CREATED, inflight[c].calls + 1))
    /\ UNCHANGED History

\* Account.all()
All(c) ==
    /\ inflight[c].pc = "all"
    /\ Step(c, Done("list", HTTP_200_OK, inflight[c].calls + 1))
    /\ UNCHANGED <<db, nextId, History>>

\* account.update() or account.delete(), after the find
Write(c) ==
    /\ inflight[c].pc = "write"
    /\ IF inflight[c].op = "update"
       THEN LET u == Account_update(db, inflight[c].account)
            IN /\ db' = u.db
               /\ Step(c, Done("update",
                               IF u.ok THEN HTTP_200_OK
                               ELSE HTTP_500_INTERNAL_SERVER_ERROR,
                               inflight[c].calls + 1))
       ELSE /\ db' = Account_delete(db, inflight[c].account)
            /\ Step(c, Done("delete", HTTP_204_NO_CONTENT, inflight[c].calls + 1))
    /\ UNCHANGED <<nextId, History>>

NextConc ==
    \E c \in Clients : Receive(c) \/ Find(c) \/ Insert(c) \/ All(c) \/ Write(c)

SpecConc == Init /\ [][NextConc]_vars

\* ------------------------------------------------------------------ claims
TheId(rq) == ReqId(rq.ct, rq.body)
TextOf(p) == [k \in RequiredKeys |-> p[k]]

\* C1: a create, read, update or delete request whose Content-Type is
\* missing or is not application/json is answered 415 whatever its body,
\* and storage is left as it was.
C1_ContentTypeGate ==
    [][(last'.op \in CrudOps /\ last'.ct # JSON)
          => (last'.status = HTTP_415_UNSUPPORTED_MEDIA_TYPE
                /\ db' = db /\ nextId' = nextId)]_vars

C1_Witness ==
    /\ last.op = "create" /\ last.ct = "test/html" /\ last.body = Obj(Alice)
    /\ last.status = HTTP_415_UNSUPPORTED_MEDIA_TYPE
    /\ db # {}

\* the record a read must return for the account created from payload p
\* under id i: p's own text, and p's date or the default date
Expected(p, i) ==
    [id |-> i, name |-> p["name"], email |-> p["email"], address |-> p["address"],
     phone_number |-> p["phone_number"],
     date_joined |-> IF "date_joined" \in DOMAIN p THEN p["date_joined"]
                     ELSE "2026-11-01"]

\* C2: create of a valid payload P is answered 201 with a server-assigned
\* id, and a read of that id, with no update or delete of it in between,
\* is answered 200 with P's name, email, address, phone_number and
\* date_joined (the default date when P has none).
C2_RoundTrip ==
    /\ (last.op = "create" /\ last.ct = JSON /\ last.body.kind = "object"
          /\ Without(last.body.obj, "id") \in ValidFields)
         => /\ last.status = HTTP_201_CREATED
            /\ \E p \in last.payload :
                  /\ last.payload = {p}
                  /\ p.id \in 1..MaxId
                  /\ p = Expected(last.body.obj, p.id)
    /\ (last.op = "read" /\ TheId(last) \in DOMAIN createdFrom)
         => /\ last.status = HTTP_200_OK
            /\ last.payload = {Expected(createdFrom[TheId(last)], TheId(last))}

C2_Witness ==
    /\ last.op = "read" /\ TheId(last) \in DOMAIN createdFrom
    /\ last.status = HTTP_200_OK
    /\ "date_joined" \notin DOMAIN createdFrom[TheId(last)]
    /\ Cardinality(db) = 2

\* C3: a read or an update naming an id that is not in storage is answered
\* 404, a delete naming such an id is answered 204, and storage is
\* unchanged in all three cases.
C3_NotFound ==
    [][(last'.op \in {"read", "update", "delete"} /\ TheId(last') # NoId
          /\ TheId(last') \notin Ids(db))
          => /\ last'.status = IF last'.op = "delete" THEN HTTP_204_NO_CONTENT
                               ELSE HTTP_404_NOT_FOUND
             /\ db' = db /\ nextId' = nextId]_vars

C3_Witness ==
    /\ last.op = "update" /\ last.status = HTTP_404_NOT_FOUND
    /\ Without(last.body.obj, "id") \in ValidFields
    /\ db # {} /\ TheId(last) \notin Ids(db)

\* C4: two deletes of the same id in a row are both answered 204, and the
\* second leaves storage as the first left it.
C4_IdempotentDelete ==
    [][(last.op = "delete" /\ last'.op = "delete" /\ TheId(last') # NoId
          /\ TheId(last') = TheId(last))
          => /\ last.status = HTTP_204_NO_CONTENT
             /\ last'.status = HTTP_204_NO_CONTENT
             /\ db' = db /\ nextId' = nextId]_vars

C4_Witness ==
    /\ twice /\ last.status = HTTP_204_NO_CONTENT
    /\ TheId(last) \in deleted /\ db # {}

\* C5: once a delete of an id that was in storage has been answered 204,
\* every later read of that id is answered 404; a read of an id that a
\* create returned and no delete removed is answered 200.
C5_DeletedStaysGone ==
    /\ deleted \cap Ids(db) = {}
    /\ (last.op = "read" /\ TheId(last) \in deleted)
         => last.status = HTTP_404_NOT_FOUND
    /\ (last.op = "read" /\ TheId(last) \in Range(assigned) \ deleted)
         => last.status = HTTP_200_OK

C5_Witness ==
    /\ last.op = "read" /\ TheId(last) \in deleted
    /\ last.status = HTTP_404_NOT_FOUND
    /\ Len(assigned) = 2

\* C6: list-all is answered 200 with exactly one record for every id that
\* was created and not deleted since: N - M records after N creates and M
\* deletes of created accounts, none on empty storage.
C6_ListComplete ==
    last.op = "list"
      => /\ last.status = HTTP_200_OK
         /\ {p.id : p \in last.payload} = Range(assigned) \ deleted
         /\ Cardinality(last.payload) = Len(assigned) - Cardinality(deleted)

C6_Witness ==
    /\ last.op = "list" /\ Len(assigned) = 2 /\ Cardinality(deleted) = 1
    /\ Cardinality(last.payload) = 1

\* a JSON request whose body is malformed or incomplete for its operation
BadBody(rq) ==
    /\ rq.ct = JSON
    /\ \/ get_json_fails(rq.body)
       \/ rq.op \in {"create", "update"}
             /\ ~Account_deserialize(Account_new, rq.body).ok
       \/ rq.op \in {"read", "update", "delete"} /\ id_lookup_raises(rq.body)

\* C7: a JSON request whose body is malformed or incomplete (required
\* fields missing, the id missing on read, update or delete, or a value of
\* the wrong type) is answered 400 and storage is unchanged.
C7_ValidationIs400 ==
    [][(last'.op \in CrudOps /\ BadBody(last'))
          => (last'.status = HTTP_400_BAD_REQUEST /\ db' = db /\ nextId' = nextId)]_vars

\* C8: no two rows in storage share an id, and no id is handed out by two
\* creates, also when the account that had it has been deleted.
C8_IdentityInvariant ==
    /\ \A a, b \in db : a.id = b.id => a = b
    /\ \A i, j \in 1..Len(assigned) : assigned[i] = assigned[j] => i = j
    /\ Ids(db) \subseteq Range(assigned)

C8_Witness ==
    /\ last.op = "create" /\ last.status = HTTP_201_CREATED
    /\ deleted # {} /\ Len(assigned) = 2

\* C9: an update naming an id in storage, with a valid body, is answered
\* 200; afterwards the row with that id has the body's name, email,
\* address, phone_number and (when the body has one) date_joined, its id
\* is the same, every other row is unchanged and the ids in storage are
\* the same.
C9_UpdateOverwrites ==
    [][(last'.op = "update" /\ TheId(last') \in Ids(db)
          /\ Without(last'.body.obj, "id") \in ValidFields)
          => /\ last'.status = HTTP_200_OK
             /\ Ids(db') = Ids(db)
             /\ \A r \in db : r.id # TheId(last') => r \in db'
             /\ \A r \in db' : r.id # TheId(last') => r \in db
             /\ \A r \in db' : r.id = TheId(last') =>
                   /\ TextOf(r) = TextOf(last'.body.obj)
                   /\ ("date_joined" \in DOMAIN last'.body.obj =>
                          isoformat(r.date_joined) = last'.body.obj["date_joined"])
             /\ Cardinality(db') = Cardinality(db)]_vars

C9_Witness ==
    /\ last.op = "update" /\ last.status = HTTP_200_OK
    /\ Cardinality(db) = 2
    /\ TheId(last) \notin DOMAIN createdFrom
    /\ \E p \in last.payload : p.name = "Jake" /\ p.date_joined = "2020-01-01"

\* C10 as stated: no request issues more than one persistence call.
C10_OneCallPerRequest ==
    \A c \in Clients : inflight[c].calls <= 1

\* C10 as amended: create, list-all and read issue one persistence call
\* (none when the request is rejected first); update and delete issue
\* Account.find and, only when it found the account, a second call, and
\* the handler is between the two calls exactly when it waits to write.
C10_FindThenWrite ==
    \A c \in Clients :
        LET r == inflight[c]
        IN /\ r.calls <= 2
           /\ r.op \in {"create", "list", "read"} => r.calls <= 1
           /\ r.pc = "write" <=>
                 (r.calls = 1 /\ r.status = 0 /\ r.op \in {"update", "delete"}
                    /\ r.found # None)
           /\ r.pc = "write" => r.found.id = r.body.obj["id"]
           /\ r.pc = "done" =>
                 /\ r.status \in {HTTP_200_OK, HTTP_201_CREATED} =>
                       r.calls = IF r.op = "update" THEN 2 ELSE 1
                 /\ r.status = HTTP_404_NOT_FOUND => r.calls = 1
                 /\ r.status = HTTP_204_NO_CONTENT => r.calls \in {1, 2}
                 /\ r.status \in {HTTP_415_UNSUPPORTED_MEDIA_TYPE} => r.calls = 0

\* another client's call changed the row between a handler's two calls
C10_Witness ==
    \E c \in Clients :
        /\ inflight[c].pc = "write" /\ inflight[c].op = "update"
        /\ inflight[c].found \notin db

====
